---- MODULE Spec2Model ----
(***************************************************************************)
(* Model of the Access Layer of the Butler agent:                          *)
(*   agents/shared/database.py      Database  (tenant-scoped store)        *)
(*   agents/shared/claude_client.py ClaudeClient (message relay)           *)
(*   agents/butler/butler.py        ButlerAgent / main (CLI caller)        *)
(* The PostgreSQL server and the psycopg2 / boto3 drivers are the          *)
(* environment: their outcomes are nondeterministic choices.               *)
(***************************************************************************)
EXTENDS Integers, Sequences, FiniteSets, TLC

VARIABLES
    tenant_id,    \* Database.tenant_id: None or Some(string)
    connection,   \* Database.connection: NoConnection or a transport id
    transports,   \* every transport psycopg2.connect can hand out
    committed,    \* the writes durably committed in the database
    scopes,       \* active `with` scopes: the transport each __enter__ opened
    scopeLeft,    \* transports opened by a `with` scope that has been left
    last,         \* outcome of the last Database call
    client,       \* ClaudeClient.client: the boto3 handle, once constructed
    reply,        \* outcome of the last ClaudeClient call
    pc,           \* position of main() / the ButlerAgent
    args,         \* parsed command line
    printed,      \* result lines the ButlerAgent rendered, oldest first
    exit_status,  \* process exit status, NotExited while running
    prompts       \* requests the interactive loop has processed

dbVars     == <<tenant_id, connection, transports, committed, last>>
scopeVars  == <<scopes, scopeLeft>>
relayVars  == <<client, reply>>
butlerVars == <<pc, args, printed, exit_status, prompts>>
vars       == <<tenant_id, connection, transports, committed, last,
                scopes, scopeLeft, client, reply, pc, args, printed, exit_status,
                prompts>>

----------------------------------------------------------------------------
(* Bounds *)

MaxTransports == 2      \* transports psycopg2.connect hands out in one run
MaxWrites     == 1      \* distinct mutations a caller can issue
MaxDepth      == 2      \* nesting depth of `with` scopes on one Database
MaxPrompts    == 2      \* prompts read by the interactive loop

----------------------------------------------------------------------------
(* Python values *)

\* Optional[str]: None is the empty tuple, a string s is <<s>>.
None    == <<>>
Some(s) == <<s>>

TenantStrings == {"", "customer-001"}
TenantArgs    == {None} \cup {Some(s) : s \in TenantStrings}

\* Python truthiness of an Optional[str]: None and "" are falsy.
Truthy(o) == o # None /\ o # Some("")

----------------------------------------------------------------------------
(* The database server and the psycopg2 driver *)

TransportIds == 1..MaxTransports
Writes       == 1..MaxWrites

NoConnection == 0

FreshTransport ==
    [state |-> "unopened", txn |-> "idle", tag |-> None, pending |-> {}]

\* psycopg2.connect succeeded: a new session, no transaction, no tag.
OpenedTransport ==
    [state |-> "open", txn |-> "idle", tag |-> None, pending |-> {}]

\* connection.close(): the session ends and its open transaction is
\* discarded; on an already closed connection it is a no-op.
ClosedTransport ==
    [state |-> "closed", txn |-> "idle", tag |-> None, pending |-> {}]

Unopened == {t \in TransportIds : transports[t].state = "unopened"}

NextTransport == CHOOSE t \in Unopened : \A u \in Unopened : t <= u

\* Statements a caller submits: a read, a session statement (no result set,
\* no effect on the data), and the mutations, with or without a RETURNING
\* clause.  write names the mutation's effect, 0 when there is none.
NoWrite   == 0
Mutations == {"INSERT", "UPDATE", "DELETE"}
Statements ==
    [kind : {"SELECT", "SET"}, returning : {FALSE}, write : {NoWrite}]
    \cup [kind : Mutations, returning : BOOLEAN, write : Writes]

\* The query of a call that carries out none.
NoQuery == [kind |-> "", returning |-> FALSE, write |-> NoWrite]

\* The server answers a read and a mutation with a RETURNING clause with a
\* result set, every other statement with a bare command status.
YieldsResultSet(q) == q.kind \in {"SELECT", "SELECT version()"} \/ q.returning

\* cursor.description after cursor.execute(q): the columns of the result
\* set, None (the empty tuple) when there is none.
Description(q) == IF YieldsResultSet(q) THEN <<"id">> ELSE <<>>

RECURSIVE SortedRows(_)
SortedRows(S) ==
    IF S = {} THEN <<>>
    ELSE LET m == CHOOSE x \in S : \A y \in S : x <= y
         IN  <<[id |-> m]>> \o SortedRows(S \ {m})

\* SELECT version(): one row, whatever the data.
VersionQuery == [kind |-> "SELECT version()", returning |-> FALSE, write |-> NoWrite]

\* The result set the server produces for q on transport t: a read sees
\* what is committed and what its own transaction has written.
ResultSet(q, t) ==
    IF q.kind = "SELECT"
    THEN SortedRows(committed \cup transports[t].pending)
    ELSE IF q = VersionQuery THEN <<[id |-> 0]>>
    ELSE <<[id |-> q.write]>>

WritesOf(q) == IF q.write = NoWrite THEN {} ELSE {q.write}

----------------------------------------------------------------------------
(* Database (agents/shared/database.py) *)

\* What self.connection refers to when a call is made.
Held ==
    IF connection = NoConnection THEN "none" ELSE transports[connection].state

\* What the caller observes of a call: how it ended, the statement it
\* carried out (NoQuery when it carried out none) and the rows it returned,
\* the number of statements it put on the wire, what self.connection held
\* when it was made and, for a close made by __exit__, the way the `with`
\* body was left.
Returned(op, q, rows, sent) ==
    [op |-> op, query |-> q, status |-> "returned", rows |-> rows, sent |-> sent,
     held |-> Held, via |-> "call"]
Raised(op, sent) ==
    [op |-> op, query |-> NoQuery, status |-> "raised", rows |-> <<>>, sent |-> sent,
     held |-> Held, via |-> "call"]

\* Database(tenant): __init__ stores the tenant and holds no connection.
Database_init(t) ==
    /\ tenant_id' = t
    /\ connection' = NoConnection

\* The transport after the session statement SET app.tenant_id = %s ran:
\* psycopg2 opens a transaction for it and the code never ends it.
TaggedTransport ==
    [state |-> "open", txn |-> "intrans", tag |-> tenant_id, pending |-> {}]

\* connect(): psycopg2.connect, then the tenant tag when tenant_id is truthy.
\* Every exception is printed and re-raised; nothing is undone.
connect ==
    \/ \* psycopg2.connect raises: self.connection is not assigned
       /\ last' = Raised("connect", 0)
       /\ UNCHANGED <<tenant_id, connection, transports, committed>>
    \/ \* connected, and the SET statement raises
       /\ Unopened # {}
       /\ Truthy(tenant_id)
       /\ \E txn \in {"idle", "aborted"} :
            transports' = [transports EXCEPT
                             ![NextTransport] = [OpenedTransport EXCEPT !.txn = txn]]
       /\ connection' = NextTransport
       /\ last' = Raised("connect", 1)
       /\ UNCHANGED <<tenant_id, committed>>
    \/ \* success
       /\ Unopened # {}
       /\ connection' = NextTransport
       /\ transports' = [transports EXCEPT
                           ![NextTransport] = IF Truthy(tenant_id)
                                              THEN TaggedTransport
                                              ELSE OpenedTransport]
       /\ last' = Returned("connect", NoQuery, <<>>, IF Truthy(tenant_id) THEN 1 ELSE 0)
       /\ UNCHANGED <<tenant_id, committed>>

\* Variant of CursorAvailable that hands out a cursor on any connection
\* object, open or closed.
CursorOnHeldConnection == connection # NoConnection

\* self.connection.cursor() works only on an open connection: on None it
\* is an AttributeError, on a closed connection an InterfaceError.
CursorAvailable ==
    /\ connection # NoConnection
    /\ transports[connection].state = "open"

\* cursor.fetchall(): every row of the result set, in order.
fetchall(rs) == rs

\* Variant of execute_result that commits before it looks at the cursor's
\* description.
execute_result_commit_first(q) ==
    /\ committed' = committed \cup transports[connection].pending \cup WritesOf(q)
    /\ transports' = [transports EXCEPT
                        ![connection].txn = "idle",
                        ![connection].pending = {}]
    /\ last' = Returned("execute", q,
                        IF Description(q) # <<>>
                        THEN fetchall(ResultSet(q, connection)) ELSE <<>>, 1)
    /\ UNCHANGED <<tenant_id, connection>>

\* execute(), after cursor.execute(q) succeeded on the held connection.
\* The statement has run in the connection's transaction.
execute_result(q) ==
    IF Description(q) # <<>>
    THEN \* SELECT query: return cursor.fetchall(), no commit
         /\ transports' = [transports EXCEPT
                             ![connection].txn = "intrans",
                             ![connection].pending = @ \cup WritesOf(q)]
         /\ last' = Returned("execute", q, fetchall(ResultSet(q, connection)), 1)
         /\ UNCHANGED <<tenant_id, connection, committed>>
    ELSE \* INSERT/UPDATE/DELETE: self.connection.commit(), return []
         /\ committed' = committed \cup transports[connection].pending \cup WritesOf(q)
         /\ transports' = [transports EXCEPT
                             ![connection].txn = "idle",
                             ![connection].pending = {}]
         /\ last' = Returned("execute", q, <<>>, 1)
         /\ UNCHANGED <<tenant_id, connection>>

\* execute(query): a cursor on the held connection, cursor.execute, then
\* the result.  An exception leaves the `with` block of the cursor and
\* propagates; nothing is committed or rolled back.
execute(q) ==
    \/ \* no cursor: nothing reaches the server
       /\ ~CursorAvailable
       /\ last' = Raised("execute", 0)
       /\ UNCHANGED <<tenant_id, connection, transports, committed>>
    \/ \* the transaction is already aborted: the server rejects the statement
       /\ CursorAvailable
       /\ transports[connection].txn = "aborted"
       /\ last' = Raised("execute", 1)
       /\ UNCHANGED <<tenant_id, connection, transports, committed>>
    \/ \* cursor.execute raises (constraint violation, bad SQL, ...)
       /\ CursorAvailable
       /\ transports[connection].txn # "aborted"
       /\ transports' = [transports EXCEPT ![connection].txn = "aborted"]
       /\ last' = Raised("execute", 1)
       /\ UNCHANGED <<tenant_id, connection, committed>>
    \/ \* cursor.execute succeeded
       /\ CursorAvailable
       /\ transports[connection].txn # "aborted"
       /\ execute_result(q)

\* close(): closes the held connection object when there is one; the
\* field keeps referring to it.
close_via(path) ==
    /\ transports' = IF connection # NoConnection
                     THEN [transports EXCEPT ![connection] = ClosedTransport]
                     ELSE transports
    /\ last' = [Returned("close", NoQuery, <<>>, 0) EXCEPT !.via = path]
    /\ UNCHANGED <<tenant_id, connection, committed>>

\* Variant of close without the `if self.connection` guard: None.close()
\* is an AttributeError.
close_unguarded ==
    IF connection = NoConnection
    THEN /\ last' = Raised("close", 0)
         /\ UNCHANGED <<tenant_id, connection, transports, committed>>
    ELSE close_via("call")

close == close_via("call")

\* __enter__: return self.connect().  The scope is entered only when
\* connect returned.
ExitPaths == {"normal", "exception", "return"}

enter ==
    /\ connect
    /\ scopes' = IF last'.status = "returned"
                 THEN Append(scopes, connection')
                 ELSE scopes
    /\ UNCHANGED scopeLeft

\* __exit__: self.close(), whichever way the body was left.
exit(path) ==
    /\ scopes # <<>>
    /\ close_via(path)
    /\ scopes' = SubSeq(scopes, 1, Len(scopes) - 1)
    /\ scopeLeft' = scopeLeft \cup {scopes[Len(scopes)]}

----------------------------------------------------------------------------
(* ClaudeClient (agents/shared/claude_client.py) *)

DefaultMaxTokens == 1024

Message(role, content) == [role |-> role, content |-> content]

\* What client.invoke_model can do: raise (network, auth, throttling,
\* rejected request), or answer with a body that is not JSON, or with a
\* JSON object.  A JSON object is the set of its keys and, under "content",
\* a list of blocks; a block is the set of its keys and its text.
Block(keys, text) == [keys |-> keys, text |-> text]
Body(keys, content) == [keys |-> keys, content |-> content]

ReplyTexts == {"Butler online", ""}

Bodies ==
    {Body({"message"}, <<>>),
     Body({"content"}, <<>>),
     Body({"content"}, <<Block({"type"}, "")>>),
     Body({"content"}, <<Block({"type"}, ""), Block({"type", "text"}, "Butler online")>>)}
    \cup {Body({"content"}, <<Block({"type", "text"}, s)>>) : s \in ReplyTexts}

NoBody == Body({}, <<>>)

Outcomes ==
    {[kind |-> "error", body |-> NoBody], [kind |-> "not json", body |-> NoBody]}
    \cup {[kind |-> "json", body |-> b] : b \in Bodies}

\* The body has the shape content[0].text.
HasTextShape(o) ==
    /\ o.kind = "json"
    /\ "content" \in o.body.keys
    /\ Len(o.body.content) >= 1
    /\ "text" \in o.body.content[1].keys

\* The request envelope; a key that is not set is None.
Envelope(messages, system, max_tokens) ==
    [anthropic_version |-> "bedrock-2023-05-31",
     max_tokens |-> max_tokens,
     messages |-> messages,
     system |-> IF Truthy(system) THEN system ELSE None]

\* What a call of the client gives its caller: the text, or an exception;
\* with the envelope it submitted and the number of invoke_model calls.
RelayReturned(env, text) ==
    [status |-> "returned", value |-> Some(text), error |-> "",
     attempts |-> 1, request |-> env]
RelayRaised(env, error) ==
    [status |-> "raised", value |-> None, error |-> error,
     attempts |-> 1, request |-> env]

\* response_body['content'][0]['text'], as Python evaluates it.
extract_text(env, body) ==
    IF "content" \notin body.keys THEN RelayRaised(env, "KeyError")
    ELSE IF Len(body.content) = 0 THEN RelayRaised(env, "IndexError")
    ELSE IF "text" \notin body.content[1].keys THEN RelayRaised(env, "KeyError")
    ELSE RelayReturned(env, body.content[1].text)

\* Variant of send_message whose handler swallows the exception and
\* returns an empty string.
send_message_swallowing(messages, system, max_tokens, o) ==
    LET env == Envelope(messages, system, max_tokens)
    IN  IF HasTextShape(o)
        THEN RelayReturned(env, o.body.content[1].text)
        ELSE RelayReturned(env, "")

\* send_message(messages, system, max_tokens) when invoke_model does o:
\* one invoke_model call; any exception is printed and re-raised.
send_message(messages, system, max_tokens, o) ==
    LET env == Envelope(messages, system, max_tokens)
    IN  IF o.kind = "error" THEN RelayRaised(env, "ClientError")
        ELSE IF o.kind = "not json" THEN RelayRaised(env, "JSONDecodeError")
        ELSE extract_text(env, o.body)

\* chat(user_message, system): one user turn, handed to send_message.
chat(user_message, system, o) ==
    send_message(<<Message("user", user_message)>>, system, DefaultMaxTokens, o)

NoCall ==
    [op |-> "none", outcome |-> [kind |-> "none", body |-> NoBody],
     result |-> [status |-> "returned", value |-> None, error |-> "",
                 attempts |-> 0, request |-> Envelope(<<>>, None, 0)]]

\* ClaudeClient(): boto3.client(...) builds the handle or raises.
ClaudeClient_init ==
    \/ /\ client' = "ready"
       /\ reply' = [NoCall EXCEPT !.op = "__init__"]
    \/ /\ client' = client
       /\ reply' = [NoCall EXCEPT !.op = "__init__",
                                  !.result.status = "raised",
                                  !.result.error = "BotoCoreError"]

----------------------------------------------------------------------------
(* Initial states *)

InitDb(tenants) ==
    /\ tenant_id \in tenants
    /\ connection = NoConnection
    /\ transports = [t \in TransportIds |-> FreshTransport]
    /\ committed = {}
    /\ scopes = <<>>
    /\ scopeLeft = {}
    /\ last = [op |-> "init", query |-> NoQuery, status |-> "returned",
               rows |-> <<>>, sent |-> 0, held |-> "none", via |-> "call"]

InitRelay ==
    /\ client = "unset"
    /\ reply = NoCall

NotExited == -1
NoArgs    == [health_check |-> FALSE, tenant_id |-> ""]

InitButler ==
    /\ pc = "off"
    /\ args = NoArgs
    /\ printed = <<>>
    /\ exit_status = NotExited
    /\ prompts = 0

----------------------------------------------------------------------------
(* A caller driving one Database object *)

Init == InitDb(TenantArgs) /\ InitRelay /\ InitButler

Connect == connect /\ UNCHANGED <<scopeVars, relayVars, butlerVars>>
Execute == \E q \in Statements : execute(q) /\ UNCHANGED <<scopeVars, relayVars, butlerVars>>
Close   == close /\ UNCHANGED <<scopeVars, relayVars, butlerVars>>

Next == Connect \/ Execute \/ Close

Spec == Init /\ [][Next]_vars

\* The same caller, also using the Database as a context manager.
Enter == Len(scopes) < MaxDepth /\ enter /\ UNCHANGED <<relayVars, butlerVars>>
Exit  == \E path \in ExitPaths : exit(path) /\ UNCHANGED <<relayVars, butlerVars>>

NextScoped == Enter \/ Exit \/ Connect \/ Execute \/ Close

SpecScoped == Init /\ [][NextScoped]_vars

----------------------------------------------------------------------------
(* A caller driving one ClaudeClient *)

UserTexts   == {"ping", "Say 'Butler online' in 3 words or less"}
SystemArgs  == {None, Some(""), Some("Reply with OK")}
MessageSeqs ==
    {<<Message("user", u)>> : u \in UserTexts}
    \cup {<<Message("user", "ping"), Message("assistant", "pong"), Message("user", "ping")>>}
MaxTokenArgs == {DefaultMaxTokens, 16}

Construct ==
    /\ client = "unset"
    /\ ClaudeClient_init
    /\ UNCHANGED <<dbVars, scopeVars, butlerVars>>

SendMessage ==
    /\ client = "ready"
    /\ \E m \in MessageSeqs, sys \in SystemArgs, n \in MaxTokenArgs, o \in Outcomes :
         reply' = [op |-> "send_message", outcome |-> o,
                   result |-> send_message(m, sys, n, o)]
    /\ UNCHANGED <<client, dbVars, scopeVars, butlerVars>>

Chat ==
    /\ client = "ready"
    /\ \E u \in UserTexts, sys \in SystemArgs, o \in Outcomes :
         reply' = [op |-> "chat", outcome |-> o, result |-> chat(u, sys, o)]
    /\ UNCHANGED <<client, dbVars, scopeVars, butlerVars>>

NextRelay == Construct \/ SendMessage \/ Chat

InitClient == InitDb({None}) /\ InitRelay /\ InitButler

SpecRelay == InitClient /\ [][NextRelay]_vars

----------------------------------------------------------------------------
(* ButlerAgent and main (agents/butler/butler.py) *)

system_prompt == Some("You are Butler, a helpful personal assistant.")

print(line) == printed' = Append(printed, line)

\* sys.exit(status), or the interpreter ending on an uncaught exception.
Terminate(at, status) ==
    /\ pc' = at
    /\ exit_status' = status

\* main(): parse_args, then ButlerAgent(tenant_id), which builds the
\* ClaudeClient.  No handler surrounds the construction.
main ==
    /\ pc = "main"
    /\ ClaudeClient_init
    /\ IF reply'.result.status = "raised"
       THEN print("Traceback: BotoCoreError") /\ Terminate("uncaught", 1)
       ELSE /\ pc' = IF args.health_check THEN "health_check_database" ELSE "prompt"
            /\ UNCHANGED <<printed, exit_status>>
    /\ UNCHANGED <<args, prompts, dbVars, scopeVars>>

\* run_health_check: Database(self.tenant_id)
health_check_database ==
    /\ pc = "health_check_database"
    /\ Database_init(Some(args.tenant_id))
    /\ pc' = "health_check_enter"
    /\ UNCHANGED <<transports, committed, last, scopeVars, relayVars,
                   args, printed, exit_status, prompts>>

\* run_health_check: `with ... as db`; an exception of __enter__ is caught
\* by the handler of the database check, which returns False.
health_check_enter ==
    /\ pc = "health_check_enter"
    /\ enter
    /\ IF last'.status = "returned"
       THEN pc' = "health_check_execute" /\ UNCHANGED <<printed, exit_status>>
       ELSE print("Database check failed") /\ Terminate("exited", 1)
    /\ UNCHANGED <<args, prompts, relayVars>>

\* run_health_check: db.execute("SELECT version()") and the print of its
\* first row, inside the `with` body.
health_check_execute ==
    /\ pc = "health_check_execute"
    /\ execute(VersionQuery)
    /\ pc' = "health_check_exit"
    /\ printed' = IF last'.status = "returned" /\ Len(last'.rows) >= 1
                  THEN Append(printed, "Database: version")
                  ELSE printed
    /\ UNCHANGED <<args, exit_status, prompts, scopeVars, relayVars>>

\* run_health_check: the `with` body is left, normally or by the exception
\* of the body, which the handler of the database check then catches.
health_check_exit ==
    /\ pc = "health_check_exit"
    /\ IF last.status = "returned" /\ Len(last.rows) >= 1
       THEN /\ exit("normal")
            /\ pc' = "health_check_claude"
            /\ UNCHANGED <<printed, exit_status>>
       ELSE /\ exit("exception")
            /\ print("Database check failed")
            /\ Terminate("exited", 1)
    /\ UNCHANGED <<args, prompts, relayVars>>

\* run_health_check: the Claude API check, then main's sys.exit.
health_check_claude ==
    /\ pc = "health_check_claude"
    /\ \E o \in Outcomes :
         reply' = [op |-> "chat", outcome |-> o,
                   result |-> chat("Say 'Butler online' in 3 words or less",
                                   system_prompt, o)]
    /\ IF reply'.result.status = "returned"
       THEN /\ printed' = printed \o <<"Claude API: response", "All systems operational!">>
            /\ Terminate("exited", 0)
       ELSE /\ print("Claude API check failed")
            /\ Terminate("exited", 1)
    /\ UNCHANGED <<client, args, prompts, dbVars, scopeVars>>

\* process_request(user_input): chat, or the error rendered as the reply.
process_request(user_input, o) ==
    /\ reply' = [op |-> "chat", outcome |-> o,
                 result |-> chat(user_input, system_prompt, o)]
    /\ print(IF reply'.result.status = "returned"
             THEN "Butler: response"
             ELSE "Butler: Error processing request")

\* interactive_mode: one turn of the loop.  EOF stands for input() raising
\* EOFError, which nothing catches.
Inputs == {"quit", "", "ping", "EOF"}

interactive_mode ==
    /\ pc = "prompt"
    /\ \E user_input \in Inputs :
         \/ /\ user_input = "EOF"
            /\ print("Traceback: EOFError")
            /\ Terminate("uncaught", 1)
            /\ UNCHANGED <<reply, prompts>>
         \/ /\ user_input = "quit"
            /\ print("Goodbye!")
            /\ Terminate("exited", 0)
            /\ UNCHANGED <<reply, prompts>>
         \/ /\ user_input = ""
            /\ UNCHANGED <<pc, exit_status, printed, reply, prompts>>
         \/ /\ user_input \notin {"EOF", "quit", ""}
            /\ prompts < MaxPrompts
            /\ \E o \in Outcomes : process_request(user_input, o)
            /\ prompts' = prompts + 1
            /\ UNCHANGED <<pc, exit_status>>
    /\ UNCHANGED <<client, args, dbVars, scopeVars>>

----------------------------------------------------------------------------
(* The command line program *)

InitMain ==
    /\ InitDb({None})
    /\ InitRelay
    /\ pc = "main"
    /\ args \in [health_check : BOOLEAN, tenant_id : TenantStrings]
    /\ printed = <<>>
    /\ exit_status = NotExited
    /\ prompts = 0

NextButler ==
    \/ main
    \/ health_check_database
    \/ health_check_enter
    \/ health_check_execute
    \/ health_check_exit
    \/ health_check_claude
    \/ interactive_mode

SpecButler == InitMain /\ [][NextButler]_vars

----------------------------------------------------------------------------
(* Properties of the Database *)

\* C5: close on a Database that was never opened, or whose connection is
\* already closed, returns without an error and leaves the transports, the
\* connection field and the database as they were.
CloseIdempotentSafe ==
    [][ (last'.op = "close" /\ (connection = NoConnection
                                \/ transports[connection].state = "closed"))
        => /\ last'.status = "returned"
           /\ transports' = transports
           /\ connection' = connection
           /\ committed' = committed ]_vars

\* A second close has been made on an already closed connection.
SecondCloseDone ==
    last.op = "close" /\ last.held = "closed" /\ last.status = "returned"

\* C8: an execute on a Database holding no connection or a closed one
\* raises, puts no statement on the wire and changes nothing of the
\* Database or of the database server.
ExecuteAfterCloseFails ==
    [][ (last'.op = "execute" /\ (connection = NoConnection
                                  \/ transports[connection].state # "open"))
        => /\ last'.status = "raised"
           /\ last'.sent = 0
           /\ UNCHANGED <<tenant_id, connection, transports, committed>> ]_vars

\* An execute was attempted on a closed connection.
ExecuteOnClosedDone ==
    last.op = "execute" /\ last.held = "closed" /\ last.status = "raised"

FailedOpenLeavesNoTransport ==
    [][ (last'.op = "connect" /\ last'.status = "raised")
        => \A t \in TransportIds :
             transports'[t].state = "open" => transports[t].state = "open" ]_vars

\* C3: an INSERT, UPDATE or DELETE that execute carried out without an
\* error returned [] and its effect is committed when execute returns.
MutationCommitted ==
    [][ (last'.op = "execute" /\ last'.status = "returned"
                              /\ last'.query.kind \in Mutations)
        => /\ last'.rows = <<>>
           /\ last'.query.write \in committed' ]_vars

\* C4: when connect returns on a Database built with a tenant string T, the
\* session tag of the new connection is T.
TagIsTenant ==
    [][ (last'.op = "connect" /\ last'.status = "returned" /\ tenant_id # None)
        => transports'[connection'].tag = tenant_id ]_vars

\* C10: every open transport is the one the Database holds.
OpenTransportIsHeld ==
    \A t \in TransportIds : transports[t].state = "open" => t = connection

\* C1: no transport opened by a `with` scope that has been left is open.
LeftScopeTransportClosed ==
    \A t \in scopeLeft : transports[t].state # "open"

----------------------------------------------------------------------------
(* Properties of the ClaudeClient *)

RelayErrors == {"ClientError", "JSONDecodeError", "KeyError", "IndexError"}

\* C6: when invoke_model raised, or its answer lacks content[0].text,
\* send_message and chat end in an exception after one invoke_model call
\* and give no value (so no empty string either); chat ends in the very
\* result send_message has for its one user turn.
RelayFailureRaised ==
    /\ (reply.op \in {"send_message", "chat"} /\ ~HasTextShape(reply.outcome))
         => /\ reply.result.status = "raised"
            /\ reply.result.error \in RelayErrors
            /\ reply.result.value = None
            /\ reply.result.attempts = 1
    /\ reply.op = "chat"
         => reply.result = send_message(reply.result.request.messages,
                                        reply.result.request.system,
                                        DefaultMaxTokens, reply.outcome)

\* chat was answered with a JSON body without content[0].text.
ChatGotMalformedBody ==
    /\ reply.op = "chat"
    /\ reply.outcome.kind = "json"
    /\ ~HasTextShape(reply.outcome)
    /\ reply.result.status = "raised"

----------------------------------------------------------------------------
(* Properties of the command line program *)

\* C7: no failure of the Access Layer ends the program in an uncaught
\* exception; in interactive mode a failed request leaves the loop at the
\* next prompt; in health-check mode the exit status is 0 exactly when the
\* database check and the relay check both succeeded, and not 0 otherwise.
FailuresCaughtAtBoundary ==
    /\ pc = "uncaught" => printed[Len(printed)] = "Traceback: EOFError"
    /\ (~args.health_check /\ printed # <<>>
        /\ printed[Len(printed)] = "Butler: Error processing request")
         => pc = "prompt" /\ exit_status = NotExited
    /\ (args.health_check /\ pc = "exited")
         => /\ exit_status \in {0, 1}
            /\ exit_status = 0
                 <=> /\ \E i \in 1..Len(printed) : printed[i] = "Database: version"
                     /\ \E i \in 1..Len(printed) : printed[i] = "Claude API: response"

\* Auxiliary: what the program does guarantee.  Only the construction of
\* the relay client escapes uncaught; request and check failures are
\* rendered, and the exit status of a health check tells its result.
RequestAndCheckFailuresCaught ==
    /\ (pc = "uncaught" /\ printed[Len(printed)] # "Traceback: EOFError")
         => reply.op = "__init__"
    /\ (~args.health_check /\ printed # <<>>
        /\ printed[Len(printed)] = "Butler: Error processing request")
         => pc = "prompt" /\ exit_status = NotExited
    /\ (args.health_check /\ pc = "exited")
         => /\ exit_status \in {0, 1}
            /\ exit_status = 0
                 <=> /\ \E i \in 1..Len(printed) : printed[i] = "Database: version"
                     /\ \E i \in 1..Len(printed) : printed[i] = "Claude API: response"

====
